---- MODULE Spec2Model ----
(***************************************************************************)
(* Model of the price record store of src/app.py: the record normalizer,   *)
(* the identity function, the sqlite-backed store (list / upsert / reset)  *)
(* and the startup import.                                                 *)
(*                                                                         *)
(* Strings are sequences of one-character strings, so that strip(),        *)
(* lower(), concatenation, float() and the JSON encoding are computed and  *)
(* not assumed.  Floats are counted in tenths (19.9 is 199); every float   *)
(* of the model has at most one decimal digit, for which Python's repr and *)
(* float() round-trip exactly.                                             *)
(*                                                                         *)
(* Spec runs the handlers one at a time, ConcSpec runs them concurrently   *)
(* cut at their statements on the file, NormSpec applies normalize_row to  *)
(* one row and IdSpec applies make_id to two pairs.                        *)
(***************************************************************************)
EXTENDS Integers, Sequences, FiniteSets, TLC

\* ------------------------------------------------------------------------
\* Bounds of the model
\* ------------------------------------------------------------------------

\* longest item list handed to POST /prices/reset and longest spreadsheet
MaxItems == 2

\* longest sku and key given to make_id on its own
MaxIdLen == 2

\* number of request handlers that run concurrently in ConcSpec
NumReqs == 2

\* ------------------------------------------------------------------------
\* Python values (JSON body values, spreadsheet cells, path segments)
\* ------------------------------------------------------------------------

\* a key that the mapping does not hold
Absent == [t |-> "absent", s |-> <<>>, n |-> 0, b |-> FALSE]

\* None (JSON null)
PyNone == [t |-> "none", s |-> <<>>, n |-> 0, b |-> FALSE]

\* str
StrV(s) == [t |-> "str", s |-> s, n |-> 0, b |-> FALSE]

\* int
IntV(n) == [t |-> "int", s |-> <<>>, n |-> n, b |-> FALSE]

\* float, n counts tenths
FloatV(n) == [t |-> "float", s |-> <<>>, n |-> n, b |-> FALSE]

\* bool
BoolV(b) == [t |-> "bool", s |-> <<>>, n |-> 0, b |-> b]

\* a JSON array (the empty list): a value float() has no conversion for
PyList == [t |-> "list", s |-> <<>>, n |-> 0, b |-> FALSE]

\* dict.get(k, default)
Get(row, k, default) == IF row[k].t = "absent" THEN default ELSE row[k]

\* ------------------------------------------------------------------------
\* str methods
\* ------------------------------------------------------------------------

IsSpace(c) == c = " "

RECURSIVE LStrip(_)
LStrip(s) ==
    IF s = <<>> THEN <<>>
    ELSE IF IsSpace(Head(s)) THEN LStrip(Tail(s)) ELSE s

RECURSIVE RStrip(_)
RStrip(s) ==
    IF s = <<>> THEN <<>>
    ELSE IF IsSpace(s[Len(s)]) THEN RStrip(SubSeq(s, 1, Len(s) - 1)) ELSE s

\* str.strip(), as a plausible slip would write it: trailing blanks only
StripRightOnly(s) == RStrip(s)

\* str.strip()
Strip(s) == RStrip(LStrip(s))

LowerChar(c) ==
    CASE c = "S" -> "s"
      [] c = "I" -> "i"
      [] c = "M" -> "m"
      [] c = "Y" -> "y"
      [] c = "T" -> "t"
      [] c = "F" -> "f"
      [] c = "N" -> "n"
      [] c = "R" -> "r"
      [] c = "U" -> "u"
      [] c = "E" -> "e"
      [] c = "O" -> "o"
      [] OTHER -> c

\* str.lower()
Lower(s) == [i \in 1..Len(s) |-> LowerChar(s[i])]

Digits == <<"0", "1", "2", "3", "4", "5", "6", "7", "8", "9">>

IsDigit(c) == \E d \in 1..10 : Digits[d] = c

DigitVal(c) == (CHOOSE d \in 1..10 : Digits[d] = c) - 1

RECURSIVE IntRepr(_)
\* str(n) of a natural number
IntRepr(n) ==
    IF n < 10 THEN <<Digits[n + 1]>>
    ELSE IntRepr(n \div 10) \o <<Digits[(n % 10) + 1]>>

\* repr of a non-negative float with one decimal digit: 1.0, 19.9
FloatRepr(n) == IntRepr(n \div 10) \o <<".">> \o <<Digits[(n % 10) + 1]>>

RECURSIVE DigitsVal(_)
DigitsVal(s) ==
    IF s = <<>> THEN 0
    ELSE 10 * DigitsVal(SubSeq(s, 1, Len(s) - 1)) + DigitVal(s[Len(s)])

AllDigits(s) == s # <<>> /\ \A i \in 1..Len(s) : IsDigit(s[i])

\* the text is a decimal literal "ddd" or "ddd.d" (after float()'s own strip)
IsFloatLiteral(s) ==
    LET t == Strip(s) IN
    \/ AllDigits(t)
    \/ /\ Len(t) >= 3
       /\ t[Len(t) - 1] = "."
       /\ IsDigit(t[Len(t)])
       /\ AllDigits(SubSeq(t, 1, Len(t) - 2))

\* float(str) of a decimal literal, in tenths
FloatOfLiteral(s) ==
    LET t == Strip(s) IN
    IF AllDigits(t) THEN 10 * DigitsVal(t)
    ELSE 10 * DigitsVal(SubSeq(t, 1, Len(t) - 2)) + DigitVal(t[Len(t)])

\* str(v)
PyStr(v) ==
    CASE v.t = "str" -> v.s
      [] v.t = "none" -> <<"N", "o", "n", "e">>
      [] v.t = "int" -> IntRepr(v.n)
      [] v.t = "float" -> FloatRepr(v.n)
      [] v.t = "bool" -> IF v.b THEN <<"T", "r", "u", "e">>
                         ELSE <<"F", "a", "l", "s", "e">>
      [] v.t = "list" -> <<"[", "]">>
      [] OTHER -> <<>>

\* float(v): the exception it raises, "none" when it converts
FloatExc(v) ==
    CASE v.t = "str" -> IF IsFloatLiteral(v.s) THEN "none" ELSE "ValueError"
      [] v.t \in {"int", "float", "bool"} -> "none"
      [] OTHER -> "TypeError"

\* float(v) where it converts, in tenths
FloatVal(v) ==
    CASE v.t = "str" -> FloatOfLiteral(v.s)
      [] v.t = "int" -> 10 * v.n
      [] v.t = "float" -> v.n
      [] v.t = "bool" -> IF v.b THEN 10 ELSE 0
      [] OTHER -> 0

\* ------------------------------------------------------------------------
\* Record Normalizer and Identity Function
\* ------------------------------------------------------------------------

TruthySet ==
    { <<"t", "r", "u", "e">>, <<"1">>, <<"y", "e", "s">>, <<"y">>,
      <<"s", "i", "m">> }

\* normalize_bool, were the text compared as it stands
normalize_bool_exact(v) ==
    IF v.t = "bool" THEN v.b
    ELSE IF v.t = "none" THEN FALSE
    ELSE PyStr(v) \in TruthySet

normalize_bool(v) ==
    IF v.t = "bool" THEN v.b
    ELSE IF v.t = "none" THEN FALSE
    ELSE Lower(Strip(PyStr(v))) \in TruthySet

NoData == [sku |-> <<>>, key |-> <<>>, price |-> 0, isActive |-> FALSE]

Raise(exc, msg) == [exc |-> exc, msg |-> msg, data |-> NoData]

Return(data) == [exc |-> "none", msg |-> "", data |-> data]

normalize_row(row) ==
    LET sku == Strip(PyStr(Get(row, "sku", StrV(<<>>))))
        key == Strip(PyStr(Get(row, "key", StrV(<<>>))))
        price == Get(row, "price", PyNone)
    IN  IF sku = <<>> \/ key = <<>>
        THEN Raise("ValueError", "sku and key are required")
        ELSE IF price.t = "none" \/ Strip(PyStr(price)) = <<>>
        THEN Raise("ValueError", "price is required")
        ELSE IF FloatExc(price) # "none"
        THEN Raise(FloatExc(price), "float")
        ELSE Return([sku |-> sku, key |-> key, price |-> FloatVal(price),
                     isActive |-> normalize_bool(Get(row, "isActive", BoolV(TRUE)))])

Separator == <<":", ":">>

\* the id, were the separator one colon
make_id_colon(sku, key) == sku \o <<":">> \o key

make_id(sku, key) == sku \o Separator \o key

\* ------------------------------------------------------------------------
\* json.dumps / json.loads of a record
\* ------------------------------------------------------------------------

Quote(s) == <<"\"">> \o s \o <<"\"">>

Unquote(s) == SubSeq(s, 2, Len(s) - 1)

JsonTrue == <<"t", "r", "u", "e">>

JsonFalse == <<"f", "a", "l", "s", "e">>

\* json.dumps(data, ensure_ascii=False): the text of each member of the
\* object (no character of the model needs a JSON escape)
JsonDumps(data) ==
    [sku |-> Quote(data.sku), key |-> Quote(data.key),
     price |-> FloatRepr(data.price),
     isActive |-> IF data.isActive THEN JsonTrue ELSE JsonFalse]

\* json.loads(text)
JsonLoads(text) ==
    [sku |-> Unquote(text.sku), key |-> Unquote(text.key),
     price |-> FloatOfLiteral(text.price),
     isActive |-> text.isActive = JsonTrue]

\* ------------------------------------------------------------------------
\* The sqlite store: the table prices (id TEXT PRIMARY KEY, data TEXT) is a
\* set of rows [id, data] with no two rows of the same id
\* ------------------------------------------------------------------------

Row(pid, text) == [id |-> pid, data |-> text]

\* DELETE FROM prices, were the statement left out
DeleteNothing(t) == t

\* DELETE FROM prices
DeleteAll(t) == {}

\* INSERT OR REPLACE, as a field-level merge would do it: the row keeps the
\* isActive it had
InsertOrMerge(t, pid, text) ==
    LET old == {r \in t : r.id = pid} IN
    {r \in t : r.id # pid} \cup
    { Row(pid, IF old = {} THEN text
               ELSE [text EXCEPT !.isActive = (CHOOSE r \in old : TRUE).data.isActive]) }

\* the statement, were every other row dropped
InsertAlone(t, pid, text) == {Row(pid, text)}

\* INSERT OR REPLACE INTO prices (id, data) VALUES (pid, text)
InsertOrReplace(t, pid, text) == {r \in t : r.id # pid} \cup {Row(pid, text)}

\* the table after a statement
Apply(stmt, t) ==
    IF stmt.kind = "delete" THEN DeleteAll(t)
    ELSE InsertOrReplace(t, stmt.id, stmt.data)

NoText == JsonDumps(NoData)

DeleteStmt == [kind |-> "delete", id |-> <<>>, data |-> NoText]

InsertStmt(pid, text) == [kind |-> "insert", id |-> pid, data |-> text]

\* a connection: whether a transaction is open on it, and the table as that
\* transaction sees it
NoConn == [inTxn |-> FALSE, txn |-> {}]

\* sqlite3.connect with isolation_level=None: every statement commits itself
AutocommitMode == FALSE

\* sqlite3.connect(DB_PATH) keeps the default isolation level: an INSERT,
\* REPLACE or DELETE opens a transaction implicitly and stays uncommitted
ImplicitTransactions == TRUE

\* get_db(): a new connection; CREATE TABLE IF NOT EXISTS changes no row
get_db == NoConn

\* conn.execute(stmt) of a DELETE or INSERT OR REPLACE on the database file
Execute(file, conn, stmt) ==
    IF ImplicitTransactions
    THEN [file |-> file,
          conn |-> [inTxn |-> TRUE,
                    txn |-> Apply(stmt, IF conn.inTxn THEN conn.txn ELSE file)]]
    ELSE [file |-> Apply(stmt, file), conn |-> conn]

\* conn.commit()
Commit(file, conn) ==
    [file |-> IF conn.inTxn THEN conn.txn ELSE file, conn |-> NoConn]

\* conn.close(), were it to commit what is pending
CloseCommits(file, conn) == Commit(file, conn)

\* conn.close(): a pending transaction is rolled back
Close(file, conn) == [file |-> file, conn |-> NoConn]

\* ------------------------------------------------------------------------
\* Ordering of list_prices: Python compares str by code point
\* ------------------------------------------------------------------------

\* the characters of the model in code point order
CodePoints ==
    <<" ", "\"", ".", "0", "1", "2", "3", "4", "5", "6", "7", "8", "9", ":",
      "F", "I", "M", "N", "S", "T", "Y", "[", "]",
      "a", "b", "e", "i", "l", "m", "n", "o", "r", "s", "t", "u", "x", "y">>

Ord(c) == CHOOSE i \in 1..Len(CodePoints) : CodePoints[i] = c

RECURSIVE StrLess(_, _)
\* a < b on str
StrLess(a, b) ==
    IF b = <<>> THEN FALSE
    ELSE IF a = <<>> THEN TRUE
    ELSE IF Head(a) # Head(b) THEN Ord(Head(a)) < Ord(Head(b))
    ELSE StrLess(Tail(a), Tail(b))

\* (x.sku, x.key) < (y.sku, y.key) on tuples
KeyLess(x, y) ==
    \/ StrLess(x.sku, y.sku)
    \/ x.sku = y.sku /\ StrLess(x.key, y.key)

RECURSIVE InsertSorted(_, _)
\* x placed after every element that is not greater than it
InsertSorted(sorted, x) ==
    IF sorted = <<>> THEN <<x>>
    ELSE IF KeyLess(x, Head(sorted)) THEN <<x>> \o sorted
    ELSE <<Head(sorted)>> \o InsertSorted(Tail(sorted), x)

\* rows.sort(...), were the call left out
SortNothing(rows) == rows

RECURSIVE SortRows(_)
\* rows.sort(key=lambda x: (x["sku"], x["key"])): a stable sort
SortRows(rows) ==
    IF rows = <<>> THEN <<>>
    ELSE InsertSorted(SortRows(SubSeq(rows, 1, Len(rows) - 1)), rows[Len(rows)])

RECURSIVE Orders(_)
\* the sequences that hold every element of S once
Orders(S) ==
    IF S = {} THEN {<<>>}
    ELSE UNION { { <<x>> \o p : p \in Orders(S \ {x}) } : x \in S }

\* cur.fetchall() of SELECT data FROM prices: every row once; the statement
\* has no ORDER BY, so the order is any
FetchAll(t) == Orders(t)

\* the list a GET /prices returns from what it fetched
ListOf(fetched) ==
    SortRows([i \in 1..Len(fetched) |-> JsonLoads(fetched[i].data)])

\* ------------------------------------------------------------------------
\* Inputs
\* ------------------------------------------------------------------------

Mapping(sku, key, price, isActive) ==
    [sku |-> sku, key |-> key, price |-> price, isActive |-> isActive]

\* a body of PUT /prices/{sku}/{key}: price 1.0, isActive by default
BodyOne == Mapping(Absent, Absent, IntV(1), Absent)

\* a body with a sku and a key of its own, a price in text and isActive "no"
BodyTwo ==
    Mapping(StrV(<<"x">>), StrV(<<>>), StrV(<<"2", ".", "5">>), StrV(<<"n", "o">>))

\* bodies that normalize
ValidPayloads == {BodyOne, BodyTwo}

\* bodies whose price is absent, null, blank, not a number, not convertible
InvalidPayloads ==
    { Mapping(Absent, Absent, Absent, Absent),
      Mapping(Absent, Absent, PyNone, Absent),
      Mapping(Absent, Absent, StrV(<<" ">>), Absent),
      Mapping(Absent, Absent, StrV(<<"x">>), Absent),
      Mapping(Absent, Absent, PyList, Absent) }

\* path segments of PUT /prices/{sku}/{key} that normalize
ValidPaths ==
    { << <<"a">>, <<"b">> >>, << <<" ", "a">>, <<"b">> >>,
      << <<"a", ":">>, <<"b">> >> }

\* path segments that are blank or empty
InvalidPaths ==
    { << <<" ">>, <<"b">> >>, << <<>>, <<"b">> >>, << <<"a">>, <<>> >> }

Request(path, payload) == [sku |-> path[1], key |-> path[2], payload |-> payload]

\* the PUT requests of the model
UpsertRequests ==
    { Request(p, b) : p \in ValidPaths, b \in ValidPayloads }
    \cup { Request(p, BodyOne) : p \in InvalidPaths }
    \cup { Request(<< <<" ">>, <<"b">> >>, BodyTwo) }
    \cup { Request(<< <<"a">>, <<"b">> >>, b) : b \in InvalidPayloads }

\* elements of the body of POST /prices/reset: one as stored, one with
\* blanks to trim, one of another (sku, key) and the id of the first, one
\* without price, one whose price float() cannot convert
RawItems ==
    { Mapping(StrV(<<"a">>), StrV(<<":", "b">>), IntV(1), Absent),
      Mapping(StrV(<<" ", "a", " ">>), StrV(<<"b">>),
              StrV(<<" ", "2", ".", "5">>), IntV(0)),
      Mapping(StrV(<<"a", ":">>), StrV(<<"b">>), FloatV(10), StrV(<<"Y", "e", "s">>)),
      Mapping(StrV(<<"a">>), StrV(<<"b">>), Absent, Absent),
      Mapping(StrV(<<"a">>), StrV(<<"b">>), PyList, BoolV(FALSE)) }

\* rows of the spreadsheet, keyed by column name
SheetRows ==
    { Mapping(StrV(<<"a">>), StrV(<<"b", " ">>), FloatV(25), BoolV(FALSE)),
      Mapping(StrV(<<"a">>), StrV(<<"b">>), StrV(<<"x">>), StrV(<<"S", "I", "M">>)) }

\* an element of a reset body whose id no other element of the model shares
ItemAB == Mapping(StrV(<<"a">>), StrV(<<"b">>), IntV(1), Absent)

ItemColon == Mapping(StrV(<<"a", ":">>), StrV(<<"b">>), FloatV(10), StrV(<<"Y", "e", "s">>))

ItemNoPrice == Mapping(StrV(<<"a">>), StrV(<<"b">>), Absent, Absent)

SeqsUpTo(S, n) == UNION { [1..k -> S] : k \in 0..n }

ItemLists == SeqsUpTo(RawItems, MaxItems)

Sheets == SeqsUpTo(SheetRows, MaxItems)

\* ------------------------------------------------------------------------
\* The handlers, each run from start to end on the database file
\* ------------------------------------------------------------------------

\* normalize_row of every row a loop can meet, computed once
Normalized == [row \in RawItems \cup SheetRows \cup {ItemAB} |-> normalize_row(row)]

\* normalize_row(row) raises
Raises(row) == Normalized[row].exc # "none"

RECURSIVE InsertEach(_, _, _)
\* the loops of reset_prices and load_from_excel_if_exists: normalize the
\* next row and write it, until a row raises
InsertEach(file, conn, items) ==
    IF items = <<>>
    THEN [exc |-> "none", msg |-> "", file |-> file, conn |-> conn]
    ELSE LET n == Normalized[Head(items)] IN
         IF n.exc # "none"
         THEN [exc |-> n.exc, msg |-> n.msg, file |-> file, conn |-> conn]
         ELSE LET w == Execute(file, conn,
                               InsertStmt(make_id(n.data.sku, n.data.key),
                                          JsonDumps(n.data)))
              IN  InsertEach(w.file, w.conn, Tail(items))

\* try: the loop; conn.commit()  finally: conn.close()
CommitOrClose(w) ==
    IF w.exc = "none"
    THEN LET c == Commit(w.file, w.conn) IN Close(c.file, c.conn).file
    ELSE Close(w.file, w.conn).file

\* reset_prices(items) run on the file: the exception it ends with and the
\* file it leaves
ResetRun(file, items) ==
    LET d == Execute(file, get_db, DeleteStmt)
        w == InsertEach(d.file, d.conn, items)
    IN  [exc |-> w.exc, msg |-> w.msg, file |-> CommitOrClose(w)]

\* the import, were the table cleared before the loop as in reset_prices
ImportClearing(file, sheet) ==
    LET d == Execute(file, get_db, DeleteStmt)
        w == InsertEach(d.file, d.conn, sheet)
    IN  [exc |-> w.exc, msg |-> w.msg, file |-> CommitOrClose(w)]

\* load_from_excel_if_exists() run on the file when the spreadsheet exists
ImportRun(file, sheet) ==
    LET w == InsertEach(file, get_db, sheet)
    IN  [exc |-> w.exc, msg |-> w.msg, file |-> CommitOrClose(w)]

\* the payload, were the path segments only defaults of its fields
WithPathAsDefault(payload, sku, key) ==
    [payload EXCEPT !.sku = IF @.t = "absent" THEN StrV(sku) ELSE @,
                    !.key = IF @.t = "absent" THEN StrV(key) ELSE @]

\* payload = dict(payload); payload["sku"] = sku; payload["key"] = key
WithPath(payload, sku, key) ==
    [payload EXCEPT !.sku = StrV(sku), !.key = StrV(key)]

\* pid = make_id(sku, key): the path segments as they came
UpsertId(sku, key, data) == make_id(sku, key)

\* upsert_price(sku, key, payload) run on the file
UpsertRun(file, sku, key, payload) ==
    LET n == normalize_row(WithPath(payload, sku, key)) IN
    IF n.exc # "none"
    THEN [exc |-> n.exc, msg |-> n.msg, file |-> file, id |-> <<>>, data |-> NoData]
    ELSE LET pid == UpsertId(sku, key, n.data)
             w == Execute(file, get_db, InsertStmt(pid, JsonDumps(n.data)))
             c == Commit(w.file, w.conn)
         IN  [exc |-> "none", msg |-> "", file |-> Close(c.file, c.conn).file,
              id |-> pid, data |-> n.data]

\* the status of the response: upsert_price turns a ValueError into
\* HTTPException(400); any other exception leaves the handler uncaught
UpsertStatus(exc) ==
    IF exc = "none" THEN 200 ELSE IF exc = "ValueError" THEN 400 ELSE 500

\* reset_prices and list_prices catch nothing
UncaughtStatus(exc) == IF exc = "none" THEN 200 ELSE 500

\* ------------------------------------------------------------------------
\* HTTP Basic authentication
\* ------------------------------------------------------------------------

BASIC_USER == "yalo-demo"

BASIC_PASS == "change-me"

HTTPBasicCredentials(username, password) ==
    [given |-> TRUE, username |-> username, password |-> password]

\* a request without an Authorization header: HTTPBasic() answers 401
NoCredentials == [given |-> FALSE, username |-> "", password |-> ""]

Configured == HTTPBasicCredentials(BASIC_USER, BASIC_PASS)

\* credentials that differ from the configured pair in the username, in the
\* password, in both, and no credentials at all
BadCredentials ==
    { HTTPBasicCredentials("yalo", BASIC_PASS),
      HTTPBasicCredentials(BASIC_USER, ""),
      HTTPBasicCredentials(BASIC_PASS, BASIC_USER),
      NoCredentials }

\* the dependency, were one matching part enough
require_basic_auth_either(credentials) ==
    /\ credentials.given
    /\ \/ credentials.username = BASIC_USER
       \/ credentials.password = BASIC_PASS

\* require_basic_auth returns True; FALSE stands for HTTPException(401)
require_basic_auth(credentials) ==
    /\ credentials.given
    /\ LET ok_user == credentials.username = BASIC_USER
           ok_pass == credentials.password = BASIC_PASS
       IN  ok_user /\ ok_pass

\* ------------------------------------------------------------------------
\* State
\* ------------------------------------------------------------------------

VARIABLES
    db,     \* the committed content of the table prices in the file DB_PATH
    last,   \* the call that ended last: its input, the table before it, its outcome
    reqs,   \* the requests being served, each by a thread of its own
    lock,   \* the request whose connection holds the write lock of the file, or 0
    hist,   \* every content of the table left by a conn.commit()
    order   \* the requests that called conn.commit(), in that order

vars == <<db, last, reqs, lock, hist, order>>

conc == <<reqs, lock, hist, order>>

NoPayload == Mapping(Absent, Absent, Absent, Absent)

NoCall ==
    [op |-> "none", sku |-> <<>>, key |-> <<>>, payload |-> NoPayload,
     items |-> <<>>, pre |-> {}, exc |-> "none", msg |-> "", status |-> 0,
     id |-> <<>>, data |-> NoData, fetched |-> <<>>, rows |-> <<>>, count |-> 0,
     credentials |-> NoCredentials, route |-> "none"]

Slots == 1..NumReqs

Idle ==
    [op |-> "none", sku |-> <<>>, key |-> <<>>, payload |-> NoPayload,
     items |-> <<>>, pc |-> "idle", i |-> 0, conn |-> NoConn, exc |-> "none",
     status |-> 0, id |-> <<>>, data |-> NoData, rows |-> <<>>, seen |-> {},
     over |-> {}, open |-> 0]

Init ==
    /\ db = {}
    /\ last = NoCall
    /\ reqs = [r \in Slots |-> Idle]
    /\ lock = 0
    /\ hist = {{}}
    /\ order = <<>>

\* the dependency of a route raised HTTPException(401): the handler of the
\* route is not called
Unauthorized(route, credentials) ==
    /\ db' = db
    /\ last' = [NoCall EXCEPT !.op = "require_basic_auth", !.route = route,
                              !.credentials = credentials, !.pre = db,
                              !.exc = "HTTPException", !.status = 401]
    /\ UNCHANGED conc

\* PUT /prices/{sku}/{key}
upsert_price(credentials, sku, key, payload) ==
    IF ~require_basic_auth(credentials)
    THEN Unauthorized("upsert", credentials)
    ELSE LET r == UpsertRun(db, sku, key, payload) IN
         /\ db' = r.file
         /\ last' = [NoCall EXCEPT !.op = "upsert", !.route = "upsert",
                                   !.credentials = credentials,
                                   !.sku = sku, !.key = key,
                                   !.payload = payload, !.pre = db, !.exc = r.exc,
                                   !.msg = r.msg, !.status = UpsertStatus(r.exc),
                                   !.id = r.id, !.data = r.data]
         /\ UNCHANGED conc

\* the count, were it the number of ids the elements have
CountIds(items) ==
    Cardinality({ make_id(Normalized[items[i]].data.sku, Normalized[items[i]].data.key) :
                      i \in 1..Len(items) })

\* "count": len(items)
ResetCount(items) == Len(items)

\* POST /prices/reset
reset_prices(credentials, items) ==
    IF ~require_basic_auth(credentials)
    THEN Unauthorized("reset", credentials)
    ELSE LET r == ResetRun(db, items) IN
         /\ db' = r.file
         /\ last' = [NoCall EXCEPT !.op = "reset", !.route = "reset",
                                   !.credentials = credentials,
                                   !.items = items, !.pre = db,
                                   !.exc = r.exc, !.msg = r.msg,
                                   !.status = UncaughtStatus(r.exc),
                                   !.count = IF r.exc = "none"
                                             THEN ResetCount(items) ELSE 0]
         /\ UNCHANGED conc

\* GET /prices
list_prices(credentials) ==
    IF ~require_basic_auth(credentials)
    THEN Unauthorized("list", credentials)
    ELSE \E fetched \in FetchAll(db) :
             /\ db' = db
             /\ last' = [NoCall EXCEPT !.op = "list", !.route = "list",
                                       !.credentials = credentials,
                                       !.pre = db, !.status = 200,
                                       !.fetched = fetched,
                                       !.rows = ListOf(fetched)]
             /\ UNCHANGED conc

\* GET /health: no dependency, whatever the credentials of the request
health(credentials) ==
    /\ db' = db
    /\ last' = [NoCall EXCEPT !.op = "health", !.route = "health",
                              !.credentials = credentials, !.pre = db,
                              !.status = 200]
    /\ UNCHANGED conc

\* the startup event of a process started on the file: the import, when the
\* spreadsheet exists
startup_event(exists, sheet) ==
    /\ IF ~exists
       THEN /\ db' = db
            /\ last' = [NoCall EXCEPT !.op = "startup", !.pre = db]
       ELSE LET r == ImportRun(db, sheet) IN
            /\ db' = r.file
            /\ last' = [NoCall EXCEPT !.op = "import", !.items = sheet, !.pre = db,
                                      !.exc = r.exc, !.msg = r.msg]
    /\ UNCHANGED conc

Next ==
    \/ \E q \in UpsertRequests : upsert_price(Configured, q.sku, q.key, q.payload)
    \/ \E items \in ItemLists : reset_prices(Configured, items)
    \/ list_prices(Configured)
    \/ \E c \in BadCredentials : upsert_price(c, <<"a">>, <<"b">>, BodyOne)
    \/ \E c \in BadCredentials : reset_prices(c, <<>>)
    \/ \E c \in BadCredentials : list_prices(c)
    \/ \E c \in {NoCredentials, Configured} : health(c)
    \/ \E sheet \in Sheets : startup_event(TRUE, sheet)
    \/ startup_event(FALSE, <<>>)

Spec == Init /\ [][Next]_vars

\* ------------------------------------------------------------------------
\* Properties of the handlers run one at a time (Spec)
\* ------------------------------------------------------------------------

SomeRaises(items) == \E i \in 1..Len(items) : Raises(items[i])

\* every list a GET /prices can return from the table t
Listings(t) == { ListOf(fetched) : fetched \in FetchAll(t) }

\* C1: a reset whose input holds an element that fails normalization, at
\* any position, leaves the committed table exactly as it was before it
C1_ResetAllOrNothing ==
    (last.op = "reset" /\ SomeRaises(last.items)) => db = last.pre

\* a reset of a non-empty table failed on its second element, after a valid one
C1_Witness ==
    /\ last.op = "reset"
    /\ Len(last.items) = 2
    /\ ~Raises(last.items[1])
    /\ Raises(last.items[2])
    /\ last.pre # {}
    /\ db = last.pre

\* the record a valid PUT is to leave: the normalization of its payload
UpsertRecord(q) == normalize_row(WithPath(q.payload, q.sku, q.key)).data

\* C2: right after a valid upsert a listing holds exactly one record with
\* the (sku, key) of the upsert, and it is the normalization of the payload
C2_UpsertThenListOne ==
    (last.op = "upsert" /\ last.status = 200) =>
        \A rows \in Listings(db) :
            LET same == { i \in 1..Len(rows) :
                            /\ rows[i].sku = UpsertRecord(last).sku
                            /\ rows[i].key = UpsertRecord(last).key }
            IN  /\ Cardinality(same) = 1
                /\ \A i \in same : rows[i] = UpsertRecord(last)

\* C3: every entry is keyed by make_id of the sku and key of its record,
\* the id an upsert returns is make_id of the record it returns, and no two
\* entries hold records of the same (sku, key)
C3_KeyedByMakeId ==
    /\ \A r \in db :
           r.id = make_id(JsonLoads(r.data).sku, JsonLoads(r.data).key)
    /\ (last.op = "upsert" /\ last.status = 200) =>
           last.id = make_id(last.data.sku, last.data.key)
    /\ \A r1, r2 \in db :
           ( /\ JsonLoads(r1.data).sku = JsonLoads(r2.data).sku
             /\ JsonLoads(r1.data).key = JsonLoads(r2.data).key ) => r1 = r2

NoBlankEnds(s) == s # <<>> /\ s[1] # " " /\ s[Len(s)] # " "

Canonical(text) ==
    LET d == JsonLoads(text) IN
    /\ NoBlankEnds(d.sku)
    /\ NoBlankEnds(d.key)
    /\ IsFloatLiteral(text.price)
    /\ text.isActive \in {JsonTrue, JsonFalse}
    /\ JsonDumps(d) = text

\* C4: every stored record has a sku and a key that are non-empty and carry
\* no blank at either end, a price that is a number and an isActive that is
\* a boolean; a call whose input was rejected stored nothing
C4_StoredCanonical ==
    /\ \A r \in db : Canonical(r.data)
    /\ last.exc # "none" => db = last.pre

\* an upsert whose sku came with a leading blank was stored
C4_Witness ==
    /\ last.op = "upsert"
    /\ last.status = 200
    /\ last.sku # Strip(last.sku)
    /\ \E r \in db : r.id = last.id /\ JsonLoads(r.data).sku = Strip(last.sku)

\* the rows a reset is to leave when, of the elements that share what
\* Same(d1, d2) compares, the last one stands
Standing(items, Same(_, _)) ==
    { Row(make_id(Normalized[items[i]].data.sku, Normalized[items[i]].data.key),
          JsonDumps(Normalized[items[i]].data)) :
        i \in { k \in 1..Len(items) :
                  ~ \E j \in (k + 1)..Len(items) :
                        Same(Normalized[items[k]].data, Normalized[items[j]].data) } }

SamePair(d1, d2) == d1.sku = d2.sku /\ d1.key = d2.key

SameId(d1, d2) == make_id(d1.sku, d1.key) = make_id(d2.sku, d2.key)

\* C5 as stated: after a successful reset the table holds exactly the
\* normalized records of the input, for elements of the same (sku, key) the
\* last one, and nothing it held before
C5_ResetHoldsLastPerPair ==
    (last.op = "reset" /\ last.status = 200) =>
        /\ db = Standing(last.items, SamePair)
        /\ last.items = <<>> => Listings(db) = {<<>>}

\* C5 amended: after a successful reset the table holds exactly the
\* normalized records of the input, for elements of the same id the last
\* one, and nothing it held before; after a reset of the empty sequence a
\* listing is empty
C5_ResetHoldsLastPerId ==
    (last.op = "reset" /\ last.status = 200) =>
        /\ db = Standing(last.items, SameId)
        /\ last.items = <<>> => Listings(db) = {<<>>}

\* a successful reset of two elements of one id and two (sku, key) pairs
\* replaced a table that held a record of another id
C5_Witness ==
    /\ last.op = "reset"
    /\ last.status = 200
    /\ Len(last.items) = 2
    /\ SameId(Normalized[last.items[1]].data, Normalized[last.items[2]].data)
    /\ ~SamePair(Normalized[last.items[1]].data, Normalized[last.items[2]].data)
    /\ \E r \in last.pre : \A n \in db : n.id # r.id
    /\ Cardinality(db) = 1

\* C6: a reset whose input holds an element that fails normalization ends
\* with status 400 and the reason of the validation
C6_ResetInvalidIs400 ==
    (last.op = "reset" /\ SomeRaises(last.items)) =>
        /\ last.status = 400
        /\ last.msg \in {"sku and key are required", "price is required", "float"}

\* the price of a request is absent, empty or not parsable
BadPrice(price) ==
    \/ price.t \in {"absent", "none"}
    \/ Strip(PyStr(price)) = <<>>
    \/ FloatExc(price) # "none"

\* C7: an upsert whose sku is empty or blank, whose key is empty or whose
\* price is absent, empty or unparsable ends with status 400 and leaves the
\* table as it was
C7_UpsertInvalidIs400 ==
    ( /\ last.op = "upsert"
      /\ \/ Strip(last.sku) = <<>>
         \/ last.key = <<>>
         \/ BadPrice(last.payload.price) ) =>
        /\ last.status = 400
        /\ db = last.pre

\* a <= b on str, compared by code point: a is a prefix of b, or a has the
\* smaller character at the first place where they differ
LexLeq(a, b) ==
    \/ Len(a) <= Len(b) /\ \A k \in 1..Len(a) : a[k] = b[k]
    \/ \E k \in 1..Len(a) :
           /\ k <= Len(b)
           /\ \A j \in 1..(k - 1) : a[j] = b[j]
           /\ a[k] # b[k]
           /\ Ord(a[k]) < Ord(b[k])

\* (x.sku, x.key) <= (y.sku, y.key)
PairLeq(x, y) ==
    \/ x.sku # y.sku /\ LexLeq(x.sku, y.sku)
    \/ x.sku = y.sku /\ LexLeq(x.key, y.key)

\* how many times the record d stands in the list rows
Times(rows, d) == Cardinality({ i \in 1..Len(rows) : rows[i] = d })

\* C11: the list of GET /prices holds the record of every stored row once
\* (as many times as rows store it) and ascends by (sku, key), whatever the
\* order the rows came in
C11_ListSortedAndComplete ==
    last.op = "list" =>
        /\ Len(last.rows) = Cardinality(last.pre)
        /\ \A r \in last.pre :
               Times(last.rows, JsonLoads(r.data)) =
                   Cardinality({ q \in last.pre : JsonLoads(q.data) = JsonLoads(r.data) })
        /\ \A i, j \in 1..Len(last.rows) :
               i < j => PairLeq(last.rows[i], last.rows[j])

\* a list of rows of two skus that were fetched in descending order
C11_Witness ==
    /\ last.op = "list"
    /\ Len(last.fetched) >= 2
    /\ JsonLoads(last.fetched[1].data).sku # JsonLoads(last.fetched[2].data).sku
    /\ ~PairLeq(JsonLoads(last.fetched[1].data), JsonLoads(last.fetched[2].data))
    /\ PairLeq(last.rows[1], last.rows[2])

\* the ids of the elements of a reset body, in order
ItemIds(items) ==
    [i \in 1..Len(items) |->
        make_id(Normalized[items[i]].data.sku, Normalized[items[i]].data.key)]

\* no two elements have the same id
DistinctIds(items) ==
    \A i, j \in 1..Len(items) : i # j => ItemIds(items)[i] # ItemIds(items)[j]

\* C12 as stated: the count of a successful reset is the number of records
\* the store holds, and a GET /prices lists, right after it
C12_CountIsStoredRecords ==
    (last.op = "reset" /\ last.status = 200) =>
        /\ last.count = Cardinality(db)
        /\ \A rows \in Listings(db) : Len(rows) = last.count

\* C12, amended: the count of a successful reset is the number of elements of
\* the body; it is the number of records a GET /prices lists right after it
\* when no two elements have the same id
C12_CountIsInputLength ==
    (last.op = "reset" /\ last.status = 200) =>
        /\ last.count = Len(last.items)
        /\ DistinctIds(last.items) =>
               /\ last.count = Cardinality(db)
               /\ \A rows \in Listings(db) : Len(rows) = last.count

\* a successful reset of two elements of two ids, over a store that held rows
C12_Witness ==
    /\ last.op = "reset"
    /\ last.status = 200
    /\ last.pre # {}
    /\ Len(last.items) = 2
    /\ DistinctIds(last.items)
    /\ last.count = 2
    /\ Cardinality(db) = 2

\* the body without its sku and key fields
WithoutPair(payload) == [payload EXCEPT !.sku = Absent, !.key = Absent]

\* C14: a PUT ends as it would had the body no sku and no key field, and the
\* record it stores and returns has the trimmed path segments as sku and key
C14_PathOverridesBody ==
    last.op = "upsert" =>
        LET r == UpsertRun(last.pre, last.sku, last.key, WithoutPair(last.payload))
        IN  /\ last.exc = r.exc
            /\ last.status = UpsertStatus(r.exc)
            /\ last.id = r.id
            /\ last.data = r.data
            /\ db = r.file
            /\ last.status = 200 =>
                   /\ last.data.sku = Strip(last.sku)
                   /\ last.data.key = Strip(last.key)
                   /\ Row(last.id, JsonDumps(last.data)) \in db

\* a PUT /prices/a/b whose body has sku "x" and key "" stored a record of
\* sku "a" and key "b"
C14_Witness ==
    /\ last.op = "upsert"
    /\ last.status = 200
    /\ last.payload.sku = StrV(<<"x">>)
    /\ last.payload.key = StrV(<<>>)
    /\ last.data.sku = <<"a">>
    /\ last.data.key = <<"b">>
    /\ \E row \in db : JsonLoads(row.data).sku = <<"a">> /\ row.id = last.id

\* C15: a request to GET /prices, PUT /prices/{sku}/{key} or POST
\* /prices/reset whose credentials are not the configured pair ends with 401
\* in the dependency, its handler is not run and the table is as before;
\* GET /health answers 200 without credentials
C15_BadCredentialsAre401 ==
    /\ last.route \in {"list", "upsert", "reset"} =>
           IF last.credentials = Configured
           THEN last.op = last.route
           ELSE /\ last.op = "require_basic_auth"
                /\ last.status = 401
                /\ db = last.pre
                /\ last.rows = <<>> /\ last.id = <<>> /\ last.count = 0
    /\ last.op \in {"list", "upsert", "reset"} => last.credentials = Configured
    /\ last.route = "health" => last.status = 200

\* a POST /prices/reset with an empty body and a wrong password, on a table
\* that holds rows, ended with 401
C15_Witness ==
    /\ last.route = "reset"
    /\ last.credentials = HTTPBasicCredentials(BASIC_USER, "")
    /\ last.status = 401
    /\ last.pre # {}
    /\ db = last.pre

\* the ids of the rows of a table
Ids(t) == { r.id : r \in t }

\* C16: every id of the committed table is still there after any call but a
\* reset that commits, and an upsert leaves every row of another id as it was
C16_OnlyResetRemovesIds ==
    /\ ~(last.op = "reset" /\ last.exc = "none") => Ids(last.pre) \subseteq Ids(db)
    /\ last.op = "upsert" =>
           { r \in db : r.id # last.id } = { r \in last.pre : r.id # last.id }
    /\ (last.op \in {"upsert", "reset", "import"} /\ last.exc # "none") =>
           db = last.pre

\* an upsert replaced the row of its id in a table that holds a row of another
\* id, which is still there
C16_Witness ==
    /\ last.op = "upsert"
    /\ last.status = 200
    /\ \E r \in last.pre : r.id = last.id /\ r \notin db
    /\ \E r \in last.pre : r.id # last.id /\ r \in db

\* the row the element items[i] is written as
RowOf(items, i) ==
    Row(ItemIds(items)[i], JsonDumps(Normalized[items[i]].data))

\* the last element of items that has the id of items[i] is items[i]
LastOfId(items, i) ==
    \A j \in (i + 1)..Len(items) : ItemIds(items)[j] # ItemIds(items)[i]

\* C18: an import whose rows all normalize leaves every row of the sheet
\* upserted (the last one of each id) and every row of another id as it was;
\* an import with a row that does not normalize raises and leaves the
\* committed table as it was before
C18_ImportAdditiveOrNothing ==
    last.op = "import" =>
        IF SomeRaises(last.items)
        THEN /\ last.exc # "none"
             /\ db = last.pre
        ELSE /\ last.exc = "none"
             /\ \A i \in 1..Len(last.items) :
                    LastOfId(last.items, i) => RowOf(last.items, i) \in db
             /\ \A r \in last.pre :
                    (\A i \in 1..Len(last.items) : ItemIds(last.items)[i] # r.id)
                        => r \in db
             /\ Ids(db) = Ids(last.pre) \cup
                              { ItemIds(last.items)[i] : i \in 1..Len(last.items) }

\* an import of a row that normalizes followed by one that does not, on a
\* table that holds rows and not the one the first would write
C18_Witness ==
    /\ last.op = "import"
    /\ Len(last.items) = 2
    /\ ~Raises(last.items[1])
    /\ Raises(last.items[2])
    /\ last.pre # {}
    /\ RowOf(last.items, 1) \notin last.pre
    /\ RowOf(last.items, 1) \notin db
    /\ last.exc = "ValueError"

\* ------------------------------------------------------------------------
\* normalize_row applied to one row (NormSpec)
\* ------------------------------------------------------------------------

\* values of the isActive field of a row: missing, None, booleans, numbers, a
\* list, and text in several cases and with blanks around
ActiveValues ==
    { Absent, PyNone, BoolV(TRUE), BoolV(FALSE), IntV(0), IntV(1), IntV(2),
      FloatV(10), PyList,
      StrV(<<"t", "r", "u", "e">>), StrV(<<"T", "R", "U", "E">>),
      StrV(<<"T", "r", "u", "e">>), StrV(<<" ", "t", "r", "u", "e", " ">>),
      StrV(<<"1">>), StrV(<<" ", "1">>), StrV(<<"y", "e", "s">>),
      StrV(<<"Y", "e", "s">>), StrV(<<"Y", "E", "S", " ">>), StrV(<<"y">>),
      StrV(<<"Y">>), StrV(<<"s", "i", "m">>), StrV(<<"S", "I", "M">>),
      StrV(<<"S", "i", "m">>), StrV(<<"n", "o">>), StrV(<<>>), StrV(<<" ">>),
      StrV(<<"0">>), StrV(<<"f", "a", "l", "s", "e">>), StrV(<<"n">>),
      StrV(<<"s", "i">>), StrV(<<"y", "e", "s", "s">>), StrV(<<"t">>),
      StrV(<<"o", "n">>), StrV(<<"y", " ", "e", "s">>) }

\* prices: a number, a text, none, one float() cannot convert
NormPrices == { IntV(1), StrV(<<"2", ".", "5">>), Absent, PyList }

NormRows ==
    { Mapping(StrV(<<"a">>), StrV(<<"b">>), price, active) :
          price \in NormPrices, active \in ActiveValues }

\* a row is about to be normalized
NormInit ==
    /\ db = {}
    /\ \E row \in NormRows : last = [NoCall EXCEPT !.op = "row", !.payload = row]
    /\ reqs = [r \in Slots |-> Idle]
    /\ lock = 0
    /\ hist = {{}}
    /\ order = <<>>

\* normalize_row(row) returns or raises
normalize_call ==
    /\ last.op = "row"
    /\ LET r == normalize_row(last.payload) IN
       last' = [last EXCEPT !.op = "normalize", !.exc = r.exc, !.msg = r.msg,
                            !.data = r.data]
    /\ UNCHANGED <<db, conc>>

NormNext == normalize_call

NormSpec == NormInit /\ [][NormNext]_vars

\* the text forms that mean true
TrueTexts ==
    { <<"t", "r", "u", "e">>, <<"1">>, <<"y", "e", "s">>, <<"y">>,
      <<"s", "i", "m">> }

\* isActive of a record by rule: the boolean itself, true for a missing
\* field, else whether the trimmed lowercase text is one of TrueTexts
ActiveByRule(v) ==
    IF v.t = "bool" THEN v.b
    ELSE IF v.t = "absent" THEN TRUE
    ELSE Lower(Strip(PyStr(v))) \in TrueTexts

\* values whose isActive is true and values whose isActive is false
ActiveExamples ==
    { BoolV(TRUE), Absent, IntV(1), StrV(<<"Y", "e", "s">>),
      StrV(<<"S", "I", "M">>), StrV(<<"1">>), StrV(<<" ", "t", "r", "u", "e", " ">>),
      StrV(<<"Y">>) }

InactiveExamples ==
    { BoolV(FALSE), PyNone, IntV(0), IntV(2), FloatV(10), PyList,
      StrV(<<"n", "o">>), StrV(<<>>), StrV(<<"0">>), StrV(<<"y", "e", "s", "s">>),
      StrV(<<"y", " ", "e", "s">>) }

\* C13: isActive of a normalized record is the boolean itself, true when
\* the field is missing, else whether the trimmed lowercase text of the value
\* is one of "true", "1", "yes", "y", "sim"; and the value of isActive never
\* decides whether normalize_row raises
C13_IsActiveRule ==
    last.op = "normalize" =>
        LET v == last.payload.isActive
            without == normalize_row([last.payload EXCEPT !.isActive = Absent])
        IN  /\ last.exc = without.exc
            /\ last.msg = without.msg
            /\ last.exc = "none" =>
                   /\ last.data.isActive = ActiveByRule(v)
                   /\ v \in ActiveExamples => last.data.isActive
                   /\ v \in InactiveExamples => ~last.data.isActive

\* a row whose isActive is the text "YES " was normalized to an active record
C13_Witness ==
    /\ last.op = "normalize"
    /\ last.payload.isActive = StrV(<<"Y", "E", "S", " ">>)
    /\ last.exc = "none"
    /\ last.data.isActive

\* ------------------------------------------------------------------------
\* make_id applied to two pairs (IdSpec)
\* ------------------------------------------------------------------------

\* the characters of the skus and keys: one of the separator, one not
IdChars == {"a", ":"}

IdStrings == UNION { [1..n -> IdChars] : n \in 0..MaxIdLen }

\* the two calls
IdSlots == {1, 2}

\* two pairs are about to be given to make_id
IdInit ==
    /\ db = {}
    /\ last = NoCall
    /\ \E sku1, key1, sku2, key2 \in IdStrings :
           reqs = [r \in Slots |->
                      IF r = 1 THEN [Idle EXCEPT !.pc = "make_id", !.sku = sku1, !.key = key1]
                      ELSE IF r = 2 THEN [Idle EXCEPT !.pc = "make_id", !.sku = sku2, !.key = key2]
                      ELSE Idle]
    /\ lock = 0
    /\ hist = {{}}
    /\ order = <<>>

\* make_id(sku, key) returns
make_id_call(r) ==
    /\ reqs[r].pc = "make_id"
    /\ reqs' = [reqs EXCEPT ![r] =
                   [reqs[r] EXCEPT !.pc = "made",
                                   !.id = make_id(reqs[r].sku, reqs[r].key)]]
    /\ UNCHANGED <<db, last, lock, hist, order>>

IdNext == \E r \in IdSlots : make_id_call(r)

IdSpec == IdInit /\ [][IdNext]_vars

\* s contains "::"
HasSeparator(s) == \E i \in 1..(Len(s) - 1) : s[i] = ":" /\ s[i + 1] = ":"

\* the sku and the key given to make_id on r are free of "::"
SeparatorFree(r) == ~HasSeparator(reqs[r].sku) /\ ~HasSeparator(reqs[r].key)

EndsWithColon(s) == s # <<>> /\ s[Len(s)] = ":"

BothMade == reqs[1].pc = "made" /\ reqs[2].pc = "made"

DifferentPairs == <<reqs[1].sku, reqs[1].key>> # <<reqs[2].sku, reqs[2].key>>

\* C19 as stated: two different pairs whose skus and keys do not contain "::"
\* have different ids
C19_InjectiveOnSeparatorFree ==
    (BothMade /\ SeparatorFree(1) /\ SeparatorFree(2) /\ DifferentPairs)
        => reqs[1].id # reqs[2].id

\* C19, amended: two different pairs whose skus and keys do not contain "::"
\* and whose skus do not end with ":" have different ids
C19_InjectiveOnColonSafe ==
    (/\ BothMade
     /\ SeparatorFree(1) /\ SeparatorFree(2)
     /\ ~EndsWithColon(reqs[1].sku) /\ ~EndsWithColon(reqs[2].sku)
     /\ DifferentPairs)
        => reqs[1].id # reqs[2].id

\* two pairs with colons in them, of the same sku and keys ":a" and "a:",
\* were given different ids
C19_Witness ==
    /\ BothMade
    /\ reqs[1].sku = <<"a">> /\ reqs[1].key = <<":", "a">>
    /\ reqs[2].sku = <<"a">> /\ reqs[2].key = <<"a", ":">>
    /\ reqs[1].id = <<"a", ":", ":", ":", "a">>
    /\ reqs[2].id = <<"a", ":", ":", "a", ":">>

\* ------------------------------------------------------------------------
\* The handlers run concurrently (ConcSpec): FastAPI runs each def handler
\* on a thread of its pool, each call with a connection of its own.  A
\* handler is cut where it touches the file: at each conn.execute of a
\* write, which needs the write lock of the file, at the SELECT, and at
\* conn.commit() / conn.close().
\* ------------------------------------------------------------------------

\* the table left by an import of one row of the spreadsheet
PriorTable == ImportRun({}, << Mapping(StrV(<<"a">>), StrV(<<"b", " ">>), FloatV(25), BoolV(FALSE)) >>).file

\* the requests that arrive
ConcRequests ==
    { [op |-> "list", sku |-> <<>>, key |-> <<>>, payload |-> NoPayload, items |-> <<>>],
      [op |-> "upsert", sku |-> <<"a">>, key |-> <<"b">>, payload |-> BodyOne, items |-> <<>>],
      [op |-> "upsert", sku |-> <<"a">>, key |-> <<"b">>, payload |-> BodyTwo, items |-> <<>>],
      [op |-> "reset", sku |-> <<>>, key |-> <<>>, payload |-> NoPayload,
       items |-> <<ItemAB, ItemColon>>],
      [op |-> "reset", sku |-> <<>>, key |-> <<>>, payload |-> NoPayload,
       items |-> << Mapping(StrV(<<"a">>), StrV(<<":", "b">>), IntV(1), Absent) >>],
      [op |-> "reset", sku |-> <<>>, key |-> <<>>, payload |-> NoPayload,
       items |-> <<ItemAB, ItemNoPrice>>] }

ConcInit ==
    /\ db \in {{}, PriorTable}
    /\ last = NoCall
    /\ reqs = [r \in Slots |-> Idle]
    /\ lock = 0
    /\ hist = {db}
    /\ order = <<>>

Active(r) == reqs[r].pc \notin {"idle", "done"}

\* the handler returns or raises: finally conn.close(), then the response
Done(q, exc, status) ==
    [q EXCEPT !.pc = "done", !.exc = exc, !.status = status, !.conn = NoConn]

\* sqlite3.connect(DB_PATH) in get_db(): one more connection of the call is
\* open
Opened(q) == [q EXCEPT !.open = @ + 1]

\* conn.close(): one connection fewer
Closed(q) == [q EXCEPT !.open = @ - 1, !.conn = NoConn]

\* a request arrives and its handler runs up to its first statement on the
\* file; upsert_price normalizes before it opens its connection
arrive(r, q) ==
    /\ reqs[r].pc = "idle"
    /\ LET base == [Idle EXCEPT !.op = q.op, !.sku = q.sku, !.key = q.key,
                                !.payload = q.payload, !.items = q.items,
                                !.seen = {s \in Slots : Active(s)}]
           n == normalize_row(WithPath(q.payload, q.sku, q.key))
       IN  reqs' = [reqs EXCEPT ![r] =
               IF q.op = "list" THEN [base EXCEPT !.pc = "select"]
               ELSE IF q.op = "reset" THEN [base EXCEPT !.pc = "delete"]
               ELSE IF n.exc # "none" THEN Done(base, n.exc, UpsertStatus(n.exc))
               ELSE [base EXCEPT !.pc = "insert", !.data = n.data,
                                 !.id = UpsertId(q.sku, q.key, n.data)]]
    /\ UNCHANGED <<db, last, lock, hist, order>>

\* list_prices: the SELECT reads the file under a shared lock, which no
\* commit overlaps
list_select(r) ==
    /\ reqs[r].pc = "select"
    /\ \E fetched \in FetchAll(db) :
           reqs' = [reqs EXCEPT ![r] =
                       [Done(Closed(Opened(reqs[r])), "none", 200) EXCEPT
                            !.rows = ListOf(fetched),
                            !.over = {w \in Slots : reqs[w].conn.inTxn}]]
    /\ UNCHANGED <<db, last, lock, hist, order>>

\* the write lock is free for r, or r holds it
CanWrite(r) == lock \in {0, r}

\* a write statement of r runs: the file and the connection after it, and
\* the lock, which an open transaction keeps
Written(r, stmt, q) ==
    LET w == Execute(db, reqs[r].conn, stmt) IN
    /\ db' = w.file
    /\ lock' = IF w.conn.inTxn THEN r ELSE lock
    /\ reqs' = [reqs EXCEPT ![r] = [q EXCEPT !.conn = w.conn]]
    /\ UNCHANGED <<last, hist, order>>

\* upsert_price: conn.execute(INSERT OR REPLACE ...)
upsert_insert(r) ==
    /\ reqs[r].pc = "insert"
    /\ CanWrite(r)
    /\ Written(r, InsertStmt(reqs[r].id, JsonDumps(reqs[r].data)),
               [Opened(reqs[r]) EXCEPT !.pc = "commit"])

\* reset_prices: conn.execute("DELETE FROM prices")
reset_delete(r) ==
    /\ reqs[r].pc = "delete"
    /\ CanWrite(r)
    /\ Written(r, DeleteStmt, [Opened(reqs[r]) EXCEPT !.pc = "loop", !.i = 1])

\* reset_prices: one turn of the loop that finds a row that normalizes
reset_item(r) ==
    /\ reqs[r].pc = "loop"
    /\ reqs[r].i <= Len(reqs[r].items)
    /\ ~Raises(reqs[r].items[reqs[r].i])
    /\ CanWrite(r)
    /\ LET d == Normalized[reqs[r].items[reqs[r].i]].data IN
       Written(r, InsertStmt(make_id(d.sku, d.key), JsonDumps(d)),
               [reqs[r] EXCEPT !.i = @ + 1])

\* reset_prices: one turn of the loop that finds a row normalize_row
\* rejects; the exception leaves the handler through finally: conn.close()
reset_raise(r) ==
    /\ reqs[r].pc = "loop"
    /\ reqs[r].i <= Len(reqs[r].items)
    /\ Raises(reqs[r].items[reqs[r].i])
    /\ db' = Close(db, reqs[r].conn).file
    /\ lock' = IF lock = r THEN 0 ELSE lock
    /\ reqs' = [reqs EXCEPT ![r] =
           Done(Closed(reqs[r]), Normalized[reqs[r].items[reqs[r].i]].exc, 500)]
    /\ UNCHANGED <<last, hist, order>>

\* conn.commit(), the return and finally: conn.close(); the commit replaces
\* the file's table by the transaction's in one step, no reader holding the
\* file meanwhile
commit_close(r) ==
    /\ \/ reqs[r].pc = "commit"
       \/ reqs[r].pc = "loop" /\ reqs[r].i > Len(reqs[r].items)
    /\ LET c == Commit(db, reqs[r].conn) IN
       /\ db' = Close(c.file, c.conn).file
       /\ hist' = hist \cup {Close(c.file, c.conn).file}
    /\ lock' = IF lock = r THEN 0 ELSE lock
    /\ order' = Append(order, r)
    /\ reqs' = [reqs EXCEPT ![r] = Done(Closed(reqs[r]), "none", 200)]
    /\ UNCHANGED last

\* a write statement finds the file locked by another connection until the
\* timeout of the connection: sqlite3.OperationalError, uncaught
locked(r) ==
    /\ reqs[r].pc \in {"insert", "delete"}
    /\ ~CanWrite(r)
    /\ reqs' = [reqs EXCEPT ![r] =
                   Done(Closed(Opened(reqs[r])), "OperationalError", 500)]
    /\ UNCHANGED <<db, last, lock, hist, order>>

\* conn = get_db(), before the try of the handler: sqlite3.connect opens the
\* connection and the CREATE TABLE statement raises on it (the file is not a
\* database, cannot be read or written, or stays locked); get_db has no
\* handler of its own and the exception leaves the request handler
get_db_raise(r) ==
    /\ reqs[r].pc \in {"select", "insert", "delete"}
    /\ reqs' = [reqs EXCEPT ![r] = Done(Opened(reqs[r]), "DatabaseError", 500)]
    /\ UNCHANGED <<db, last, lock, hist, order>>

ConcNext ==
    \/ \E r \in Slots, q \in ConcRequests : arrive(r, q)
    \/ \E r \in Slots : list_select(r)
    \/ \E r \in Slots : upsert_insert(r)
    \/ \E r \in Slots : reset_delete(r)
    \/ \E r \in Slots : reset_item(r)
    \/ \E r \in Slots : reset_raise(r)
    \/ \E r \in Slots : commit_close(r)
    \/ \E r \in Slots : locked(r)
    \/ \E r \in Slots : get_db_raise(r)

ConcSpec == ConcInit /\ [][ConcNext]_vars

\* ------------------------------------------------------------------------
\* Properties of the handlers run concurrently (ConcSpec)
\* ------------------------------------------------------------------------

Committers == { order[k] : k \in 1..Len(order) }

Finished(r, op) ==
    reqs[r].op = op /\ reqs[r].pc = "done" /\ reqs[r].status = 200

\* C8: when two resets that ran concurrently have both returned with
\* success and nothing else has committed, the table holds exactly the
\* records of the one or exactly those of the other
C8_ResetsNeverMix ==
    \A a, b \in Slots :
        (a # b /\ Finished(a, "reset") /\ Finished(b, "reset") /\ Committers = {a, b}) =>
            db \in { Standing(reqs[a].items, SameId), Standing(reqs[b].items, SameId) }

\* two resets of different inputs have both succeeded, the second having
\* arrived while the first was running
C8_Witness ==
    \E a, b \in Slots :
        /\ Finished(a, "reset") /\ Finished(b, "reset")
        /\ reqs[a].items # reqs[b].items
        /\ a \in reqs[b].seen
        /\ order = <<a, b>>
        /\ db = Standing(reqs[b].items, SameId)

\* C9: the list a GET /prices returns is the listing of a table that a
\* conn.commit() left (or of the initial one): never a table cleared and not
\* yet refilled, a part of a reset, or the records of a reset that failed
C9_ListSeesCommitted ==
    \A r \in Slots :
        Finished(r, "list") => \E h \in hist : reqs[r].rows \in Listings(h)

\* a list ran while a reset had its transaction open on a non-empty table,
\* and that reset has failed since
C9_Witness ==
    \E r, w \in Slots :
        /\ reqs[r].op = "list" /\ reqs[r].pc = "done"
        /\ w \in reqs[r].over
        /\ reqs[w].op = "reset" /\ reqs[w].pc = "done" /\ reqs[w].status = 500
        /\ reqs[r].rows # <<>>

\* C10: the entry of the id of the upsert that committed last is the whole
\* record of that upsert
C10_LastUpsertWins ==
    (order # <<>> /\ reqs[order[Len(order)]].op = "upsert") =>
        LET w == reqs[order[Len(order)]] IN
        { r \in db : r.id = w.id } = { Row(w.id, JsonDumps(UpsertRecord(w))) }

\* two upserts of one id and different bodies have both succeeded, the one
\* that committed last having arrived while the other was running
C10_Witness ==
    \E a, b \in Slots :
        /\ Finished(a, "upsert") /\ Finished(b, "upsert")
        /\ reqs[a].id = reqs[b].id
        /\ reqs[a].payload # reqs[b].payload
        /\ a \in reqs[b].seen
        /\ order = <<a, b>>
        /\ UpsertRecord(reqs[a]).isActive # UpsertRecord(reqs[b]).isActive

\* the DELETE of the reset that runs on r has been executed
Cleared(r) == reqs[r].op = "reset" /\ reqs[r].pc = "loop"

\* C17 as stated: a reset executes its DELETE only once every element of its
\* body has been normalized, so never when an element is rejected
C17_ValidateBeforeClear ==
    \A r \in Slots :
        Cleared(r) => \A i \in 1..Len(reqs[r].items) : ~Raises(reqs[r].items[i])

\* C20 as stated: a handler that has returned or raised has closed every
\* connection it opened
C20_NoConnectionLeftOpen ==
    \A r \in Slots : reqs[r].pc = "done" => reqs[r].open = 0

====
